---- MODULE Spec2Model ----
(***************************************************************************)
(* The job-submission-and-polling workflow of the Home page                *)
(* (frontend/src/pages/Home.jsx): file validation, the two-phase           *)
(* submission of handleCreateVideo, the polling useEffect on jobId, and    *)
(* the teardown paths (handleFile, removeFile, unmount); and the fetch      *)
(* wrappers of frontend/src/api/api.js (ApiSpec), which Home.jsx does not  *)
(* call.                                                                   *)
(*                                                                         *)
(* The browser event loop is single threaded: every action below is one    *)
(* event-loop task (a user event, a timer tick, or the continuation of an  *)
(* async function after an awaited fetch settles).  React state updates    *)
(* made in one task are committed together with the effects they trigger.  *)
(***************************************************************************)
EXTENDS Integers, Sequences, FiniteSets, Bags, TLC

\* ------------------------------------------------------------------ bounds
\* number of handleCreateVideo runs in one session
MaxRuns == 2
\* number of status requests that may be in flight at the same time
MaxInflight == 2

\* ------------------------------------------------------- values and inputs
\* JavaScript null (useState(null)) and a missing (undefined) field
Null == "<null>"
Undefined == "<undefined>"
\* jobId = null; the backend's job identifiers are 1, 2, ...
NoJob == 0
\* file = null, and the "no file chosen" input files[0] === undefined;
\* a present file f is the one-element sequence <<f>>
NoFile == << >>

\* the size limit of validateFile
MaxPdfBytes == 50 * 1024 * 1024

\* media types as character sequences (String.prototype.includes is modelled
\* on them)
PdfWord == <<"p", "d", "f">>
TypePdf == <<"a","p","p","l","i","c","a","t","i","o","n","/","p","d","f">>
TypePng == <<"i","m","a","g","e","/","p","n","g">>
TypePdfmark == <<"t","e","x","t","/","x","-","p","d","f","m","a","r","k">>

File(type, size) == [type |-> type, size |-> size]
SmallBytes == 2 * 1024 * 1024
\* the files a user may select: PDFs at and above the size limit, and other
\* media types below it
Files ==
    {File(TypePdf, MaxPdfBytes), File(TypePdf, MaxPdfBytes + 1),
     File(TypePdfmark, SmallBytes), File(TypePng, SmallBytes)}
\* what an input event can hand to handleFile
SelectedFiles == {NoFile} \cup {<<f>> : f \in Files}

\* s.includes(sub)
Includes(s, sub) ==
    \E i \in 1..(Len(s) - Len(sub) + 1) :
        \A j \in 1..Len(sub) : s[i + j - 1] = sub[j]

\* messages set by validateFile
MsgNotPdf == "Please upload a PDF file"
MsgTooBig == "PDF must be < 50MB"

VARIABLES
    mounted,        \* the Home component is mounted
    file,           \* useState(null): NoFile or <<f>>
    previewUrl,     \* useState(null)
    videoUrl,       \* useState(null)
    isGenerating,   \* useState(false)
    showPreview,    \* useState(false)
    progress,       \* useState(0)
    error,          \* useState(null)
    jobId,          \* useState(null)
    panelImages,    \* useState([])
    intervals,      \* timers created by setInterval and not yet cleared
    effectInterval, \* the interval owned by the current polling effect
    nextTimer,      \* next interval handle
    statusReqs,     \* bag of status requests in flight, each its interval
    runs,           \* the handleCreateVideo runs that have not returned
    nextRun,        \* number of the next handleCreateVideo run
    nextJob,        \* next job identifier the backend assigns
    discarded,      \* history: jobs torn down while their interval was active
    completed,      \* history: jobs whose completion has been applied
    terminated,     \* history: jobs for which a terminal status was processed
    lastPoll        \* history: the outcome of the status response the last
                    \* task processed, NoPoll when it processed none

homeState == <<file, previewUrl, videoUrl, isGenerating, showPreview,
               progress, error, jobId, panelImages>>
pollState == <<intervals, effectInterval, nextTimer, statusReqs>>
history == <<discarded, completed, terminated, lastPoll>>
vars == <<mounted, homeState, pollState, runs, nextRun, nextJob, history>>

NoInterval == [id |-> 0, job |-> NoJob]
NoPoll == "none"

\* The wrappers of api/api.js (fetchWithRetry, generateAudioStory,
\* generateVideo, getVideoStatus).  Home.jsx calls fetch directly, so they
\* are modelled on their own, one call at a time.
VARIABLES
    apiCall,        \* the function called last and its arguments
    apiRetries,     \* "retries" of the innermost fetchWithRetry frame
    apiAttempts,    \* calls of fetch() made by the call so far
    apiRequests,    \* network requests issued by the call so far
    apiInFlight,    \* a network request of the call is in flight
    apiController,  \* the call created an AbortController
    apiAborted,     \* controller.signal.aborted
    apiTimers,      \* timers created by setTimeout, not yet fired or cleared
    apiOutcome      \* how the promise returned by the call settled

apiVars == <<apiCall, apiRetries, apiAttempts, apiRequests, apiInFlight,
             apiController, apiAborted, apiTimers, apiOutcome>>
allVars == <<vars, apiVars>>

\* settlement of a promise: state "none" (nothing called), "pending",
\* "resolved" (with the response of fetch number attempt) or "rejected"
\* (with an error: name and message; status and text are the parts of the
\* message of parseJSONResponse's error)
Outcome(state, name, message, status, text, attempt) ==
    [state |-> state, name |-> name, message |-> message, status |-> status,
     text |-> text, attempt |-> attempt]
NoOutcome == Outcome("none", "", "", 0, "", 0)
Pending == Outcome("pending", "", "", 0, "", 0)
NoCall == [fn |-> "none", retries |-> 0, preview |-> FALSE]

\* no wrapper has been called
ApiIdle ==
    /\ apiCall = NoCall
    /\ apiRetries = 0
    /\ apiAttempts = 0
    /\ apiRequests = 0
    /\ apiInFlight = FALSE
    /\ apiController = FALSE
    /\ apiAborted = FALSE
    /\ apiTimers = {}
    /\ apiOutcome = NoOutcome

\* ------------------------------------------------------------- validateFile
\* return value of validateFile(sel)
validateFile(sel) ==
    IF sel = NoFile THEN FALSE
    ELSE IF ~Includes(sel[1].type, PdfWord) THEN FALSE
    ELSE IF sel[1].size > MaxPdfBytes THEN FALSE
    ELSE TRUE

\* value of error after validateFile(sel), given its value err before
validateFileError(sel, err) ==
    IF sel = NoFile THEN err
    ELSE IF ~Includes(sel[1].type, PdfWord) THEN MsgNotPdf
    ELSE IF sel[1].size > MaxPdfBytes THEN MsgTooBig
    ELSE Null

\* ------------------------------------------------------ the polling effect
\* faulty variant: the effect returns no cleanup function
EffectCleanup_Missing(timers, owned) == timers

\* the intervals left after the effect cleanup "() => clearInterval(interval)"
EffectCleanup(timers, owned) == timers \ {owned}

\* useEffect(..., [jobId]) after a commit that changed jobId from old to new:
\* the previous effect's cleanup runs, then the effect body.  Yields the new
\* <<intervals, effectInterval, nextTimer>>.
PollingEffect(old, new, timers, owned, next) ==
    IF new = old THEN <<timers, owned, next>>
    ELSE IF new = NoJob THEN <<EffectCleanup(timers, owned), NoInterval, next>>
    ELSE LET h == [id |-> next, job |-> new]
         IN  <<EffectCleanup(timers, owned) \cup {h}, h, next + 1>>

\* jobs whose polling loop is torn down when jobId goes from old to new
TornDown(old, new) ==
    IF new # old THEN {h.job : h \in intervals} ELSE {}

SetJobId(new) ==
    LET e == PollingEffect(jobId, new, intervals, effectInterval, nextTimer)
    IN  /\ jobId' = new
        /\ intervals' = e[1]
        /\ effectInterval' = e[2]
        /\ nextTimer' = e[3]
        /\ discarded' = discarded \cup (TornDown(jobId, new) \ {new})

Init ==
    /\ mounted = TRUE
    /\ file = NoFile
    /\ previewUrl = Null
    /\ videoUrl = Null
    /\ isGenerating = FALSE
    /\ showPreview = FALSE
    /\ progress = 0
    /\ error = Null
    /\ jobId = NoJob
    /\ panelImages = << >>
    /\ intervals = {}
    /\ effectInterval = NoInterval
    /\ nextTimer = 1
    /\ statusReqs = EmptyBag
    /\ runs = {}
    /\ nextRun = 1
    /\ nextJob = 1
    /\ discarded = {}
    /\ completed = {}
    /\ terminated = {}
    /\ lastPoll = NoPoll
    /\ ApiIdle

\* -------------------------------------------------- handleFile / removeFile
\* faulty variant: handleFile stores the file without consulting validateFile
HandleFile_Unvalidated(sel) ==
    /\ mounted
    /\ UNCHANGED <<mounted, isGenerating, statusReqs, runs, nextRun, nextJob,
                   completed, terminated>>
    /\ sel # NoFile
    /\ file' = sel
    /\ previewUrl' = Null
    /\ videoUrl' = Null
    /\ showPreview' = FALSE
    /\ panelImages' = << >>
    /\ progress' = 0
    /\ SetJobId(NoJob)
    /\ error' = Null
    /\ lastPoll' = NoPoll

\* faulty variant: handleFile keeps the previous preview, panels and progress
HandleFile_KeepsResults(sel) ==
    /\ mounted
    /\ UNCHANGED <<mounted, isGenerating, statusReqs, runs, nextRun, nextJob,
                   completed, terminated>>
    /\ lastPoll' = NoPoll
    /\ IF validateFile(sel)
       THEN /\ file' = sel
            /\ videoUrl' = Null
            /\ showPreview' = FALSE
            /\ SetJobId(NoJob)
            /\ error' = Null
            /\ UNCHANGED <<previewUrl, panelImages, progress>>
       ELSE /\ error' = validateFileError(sel, error)
            /\ UNCHANGED <<file, previewUrl, videoUrl, showPreview,
                           progress, jobId, panelImages, intervals,
                           effectInterval, nextTimer, discarded>>

\* handleFile(selectedFile), called by the file input and by handleDrop
HandleFile(sel) ==
    /\ mounted
    /\ UNCHANGED <<mounted, isGenerating, statusReqs, runs, nextRun, nextJob,
                   completed, terminated>>
    /\ lastPoll' = NoPoll
    /\ IF validateFile(sel)
       THEN /\ file' = sel
            /\ previewUrl' = Null
            /\ videoUrl' = Null
            /\ showPreview' = FALSE
            /\ panelImages' = << >>
            /\ progress' = 0
            /\ SetJobId(NoJob)
            /\ error' = Null
       ELSE /\ error' = validateFileError(sel, error)
            /\ UNCHANGED <<file, previewUrl, videoUrl, showPreview,
                           progress, jobId, panelImages, intervals,
                           effectInterval, nextTimer, discarded>>

\* faulty variant: removeFile without setJobId(null)
RemoveFile_KeepsJob ==
    /\ mounted
    /\ file # NoFile
    /\ file' = NoFile
    /\ previewUrl' = Null
    /\ videoUrl' = Null
    /\ error' = Null
    /\ progress' = 0
    /\ panelImages' = << >>
    /\ lastPoll' = NoPoll
    /\ UNCHANGED <<mounted, isGenerating, showPreview, jobId, pollState,
                   discarded, runs, nextRun, nextJob, completed, terminated>>

RemoveFile ==
    /\ mounted
    /\ file # NoFile
    /\ file' = NoFile
    /\ previewUrl' = Null
    /\ videoUrl' = Null
    /\ error' = Null
    /\ progress' = 0
    /\ SetJobId(NoJob)
    /\ panelImages' = << >>
    /\ lastPoll' = NoPoll
    /\ UNCHANGED <<mounted, isGenerating, showPreview, statusReqs, runs,
                   nextRun, nextJob, completed, terminated>>

\* ------------------------------------------------------- backend responses
\* A settled fetch, as the handlers see it: kind "throw" (fetch rejected: a
\* transport failure), "http" (a response with !ok) or "ok"; json says whether
\* the body parses as JSON; the other fields are the fields of the JSON body
\* the handlers read (Undefined when the body lacks them).
Response(kind, json, detail, message, status, url, images, panels, job) ==
    [kind |-> kind, json |-> json, detail |-> detail, message |-> message,
     status |-> status, url |-> url, image_urls |-> images,
     panel_images |-> panels, job_id |-> job]

\* JSON values of image_urls / panel_images: [t |-> type tag, v |-> elements]
JsUndefined == [t |-> "undefined", v |-> << >>]
JsArray(a) == [t |-> "array", v |-> a]
JsString(a) == [t |-> "string", v |-> a]

\* JavaScript truthiness: undefined and "" are falsy, every array is truthy
Truthy(x) == x # Undefined /\ x # ""
JsTruthy(x) == x.t # "undefined" /\ ~(x.t = "string" /\ x.v = << >>)

ErrorBody(json, detail, message) ==
    Response("http", json, detail, message, Undefined, Undefined,
             JsUndefined, JsUndefined, NoJob)
\* non-2xx responses: a body with detail (and message), with an empty
\* detail and a message, with neither, and a body that is not JSON
ErrorBodies ==
    {ErrorBody(TRUE, "OCR failed", "Server busy"),
     ErrorBody(TRUE, "", "Server busy"),
     ErrorBody(TRUE, Undefined, Undefined),
     ErrorBody(FALSE, Undefined, Undefined)}
Thrown ==
    Response("throw", FALSE, Undefined, Undefined, Undefined, Undefined,
             JsUndefined, JsUndefined, NoJob)
BadJson ==
    Response("ok", FALSE, Undefined, Undefined, Undefined, Undefined,
             JsUndefined, JsUndefined, NoJob)
Failures == ErrorBodies \cup {Thrown, BadJson}

StoryData(images, panels) ==
    Response("ok", TRUE, Undefined, Undefined, Undefined, Undefined, images,
             panels, NoJob)
\* story payloads: panels under panel_images, under both keys, beside an
\* empty image_urls, beside an image_urls that is no array, and under
\* neither key
StoryPayloads ==
    {StoryData(JsUndefined, JsArray(<<"q1.png">>)),
     StoryData(JsArray(<<"p1.png", "p2.png">>), JsArray(<<"q1.png">>)),
     StoryData(JsArray(<< >>), JsArray(<<"q1.png">>)),
     StoryData(JsString(<<"x">>), JsArray(<<"q1.png">>)),
     StoryData(JsUndefined, JsUndefined)}
Phase1Responses == Failures \cup StoryPayloads

PreviewUrls == {Undefined, "/preview/123.mp4"}
\* the backend assigns a job identifier that is unique per submission (fresh);
\* NoJob is a body without job_id
Phase2Responses(fresh) ==
    Failures \cup
    {Response("ok", TRUE, Undefined, Undefined, Undefined, u, JsUndefined,
              JsUndefined, j) : u \in PreviewUrls, j \in {fresh, NoJob}}

VideoUrls == {"/final/123.mp4"}
StatusResponses ==
    {Thrown,
     Response("http", TRUE, Undefined, Undefined, Undefined, Undefined,
              JsUndefined, JsUndefined, NoJob)}
    \cup {Response("ok", TRUE, Undefined, Undefined, s, Undefined,
                   JsUndefined, JsUndefined, NoJob) :
            s \in {"pending", Undefined}}
    \cup {Response("ok", TRUE, Undefined, Undefined, "completed", u,
                   JsUndefined, JsUndefined, NoJob) : u \in VideoUrls}
    \cup {Response("ok", TRUE, Undefined, m, "error", Undefined,
                   JsUndefined, JsUndefined, NoJob) :
            m \in {Undefined, "Render crashed"}}

\* --------------------------------------------------------- handleCreateVideo
MsgNoFile == "Please upload a PDF first"
MsgAudioFailed == "Audio generation failed"
MsgVideoFailed == "Video generation failed"
\* err.message of the TypeError a rejected fetch throws, and of the
\* SyntaxError res.json() throws
MsgNetwork == "Failed to fetch"
MsgSyntax == "Unexpected token < in JSON"

\* faulty variant: body.message is preferred to body.detail
PhaseError_MessageFirst(resp, fallback) ==
    IF resp.kind = "throw" THEN MsgNetwork
    ELSE IF resp.kind = "ok" THEN MsgSyntax
    ELSE IF resp.json /\ Truthy(resp.message) THEN resp.message
    ELSE IF resp.json /\ Truthy(resp.detail) THEN resp.detail
    ELSE fallback

\* err.message of what a phase throws on a response that is not usable
PhaseError(resp, fallback) ==
    IF resp.kind = "throw" THEN MsgNetwork
    ELSE IF resp.kind = "ok" THEN MsgSyntax
    ELSE LET detail == IF resp.json THEN resp.detail ELSE fallback
             message == IF resp.json THEN resp.message ELSE Undefined
         IN  IF Truthy(detail) THEN detail
             ELSE IF Truthy(message) THEN message
             ELSE fallback

\* err.message || String(err)
CaughtMessage(m) == IF m = "" THEN "Error" ELSE m

\* faulty variant: the "if (!res.ok)" test is missing
PhaseFails_NoOkTest(resp) == resp.kind = "throw" \/ ~resp.json

PhaseFails(resp) == resp.kind # "ok" \/ ~resp.json

\* faulty variant: panel_images is preferred to image_urls
PanelList_PanelImagesFirst(data) ==
    LET imgs == IF JsTruthy(data.panel_images) THEN data.panel_images
                ELSE IF JsTruthy(data.image_urls) THEN data.image_urls
                ELSE JsArray(<< >>)
    IN  IF imgs.t = "array" THEN imgs.v ELSE << >>

\* audioData.image_urls || audioData.panel_images || [], then the isArray test
PanelList(data) ==
    LET imgs == IF JsTruthy(data.image_urls) THEN data.image_urls
                ELSE IF JsTruthy(data.panel_images) THEN data.panel_images
                ELSE JsArray(<< >>)
    IN  IF imgs.t = "array" THEN imgs.v ELSE << >>

\* faulty variant: an empty image_urls array counts as absent
normalizeStoryData_EmptyArrayFalsy(data) ==
    LET imageList ==
            IF JsTruthy(data.image_urls) /\ data.image_urls.v # << >>
                THEN data.image_urls
            ELSE IF JsTruthy(data.panel_images) THEN data.panel_images
            ELSE JsArray(<< >>)
    IN  [data EXCEPT !.image_urls = IF imageList.t = "array" THEN imageList
                                    ELSE JsArray(<< >>)]

\* normalizeStoryData(data): {...data, image_urls: the list chosen by
\* data.image_urls || data.panel_images || [], or [] when it is no array}
normalizeStoryData(data) ==
    LET imageList == IF JsTruthy(data.image_urls) THEN data.image_urls
                     ELSE IF JsTruthy(data.panel_images) THEN data.panel_images
                     ELSE JsArray(<< >>)
    IN  [data EXCEPT !.image_urls = IF imageList.t = "array" THEN imageList
                                    ELSE JsArray(<< >>)]

\* a run of handleCreateVideo suspended at an await: pc "phase1" while the
\* generate_audio_story request (carrying file) is in flight, "phase2" while
\* the generate_video request is
Run(id, pc, f) == [id |-> id, pc |-> pc, file |-> f]
\* the FormData is dropped once the phase-1 request has settled
NoBody == [type |-> << >>, size |-> 0]

\* the catch block of handleCreateVideo
CatchBlock(msg) ==
    /\ error' = CaughtMessage(msg)
    /\ isGenerating' = FALSE
    /\ progress' = 0

\* faulty variant: the "if (!file)" test is missing
handleCreateVideo_NoFileTest ==
    /\ isGenerating' = TRUE
    /\ progress' = 10
    /\ error' = Null
    /\ runs' = runs \cup {Run(nextRun, "phase1",
                               IF file = NoFile THEN NoBody ELSE file[1])}
    /\ nextRun' = nextRun + 1
    /\ lastPoll' = NoPoll

\* handleCreateVideo up to its first await
handleCreateVideo ==
    IF file = NoFile
    THEN /\ error' = MsgNoFile
         /\ lastPoll' = NoPoll
         /\ UNCHANGED <<isGenerating, progress, runs, nextRun>>
    ELSE /\ isGenerating' = TRUE
         /\ progress' = 10
         /\ error' = Null
         /\ runs' = runs \cup {Run(nextRun, "phase1", file[1])}
         /\ nextRun' = nextRun + 1
         /\ lastPoll' = NoPoll

\* the Generate button: disabled={isGenerating || !file}
GenerateEnabled == ~isGenerating /\ file # NoFile

ClickGenerate ==
    /\ mounted
    /\ GenerateEnabled
    /\ nextRun <= MaxRuns
    /\ handleCreateVideo
    /\ UNCHANGED <<mounted, file, previewUrl, videoUrl, showPreview, jobId,
                   panelImages, pollState, nextJob, discarded, completed,
                   terminated>>

\* run r resumes after "await fetch(.../generate_audio_story)" and the
\* reading of the body
Phase1Settles(r, resp) ==
    /\ r \in runs
    /\ r.pc = "phase1"
    /\ IF PhaseFails(resp)
       THEN /\ runs' = runs \ {r}
            /\ lastPoll' = NoPoll
            /\ IF mounted
               THEN /\ CatchBlock(PhaseError(resp, MsgAudioFailed))
                    /\ UNCHANGED panelImages
               ELSE UNCHANGED <<error, isGenerating, progress, panelImages>>
       ELSE /\ runs' = (runs \ {r}) \cup {Run(r.id, "phase2", NoBody)}
            /\ lastPoll' = NoPoll
            /\ IF mounted
               THEN /\ panelImages' = PanelList(resp)
                    /\ progress' = 40
                    /\ UNCHANGED <<error, isGenerating>>
               ELSE UNCHANGED <<error, isGenerating, progress, panelImages>>
    /\ UNCHANGED <<mounted, file, previewUrl, videoUrl, showPreview, jobId,
                   pollState, nextRun, nextJob, discarded, completed,
                   terminated>>

\* run r resumes after "await fetch(.../generate_video)" and the reading of
\* the body
Phase2Settles(r, resp) ==
    /\ r \in runs
    /\ r.pc = "phase2"
    /\ runs' = runs \ {r}
    /\ IF PhaseFails(resp)
       THEN /\ lastPoll' = NoPoll
            /\ IF mounted
               THEN CatchBlock(PhaseError(resp, MsgVideoFailed))
               ELSE UNCHANGED <<error, isGenerating, progress>>
            /\ UNCHANGED <<previewUrl, showPreview, jobId, pollState,
                           nextJob, discarded>>
       ELSE /\ lastPoll' = NoPoll
            /\ nextJob' = IF resp.job_id = NoJob THEN nextJob ELSE nextJob + 1
            /\ IF mounted
               THEN /\ IF Truthy(resp.url)
                       THEN previewUrl' = resp.url /\ showPreview' = TRUE
                       ELSE UNCHANGED <<previewUrl, showPreview>>
                    /\ SetJobId(resp.job_id)
                    /\ progress' = 70
                    /\ UNCHANGED <<error, isGenerating>>
               ELSE UNCHANGED <<previewUrl, showPreview, jobId, progress,
                                error, isGenerating, intervals,
                                effectInterval, nextTimer, discarded>>
    /\ UNCHANGED <<mounted, file, videoUrl, panelImages, statusReqs,
                   nextRun, completed, terminated>>

\* ------------------------------------------------------------- the poller
\* the interval callback up to "await fetch(.../video_status/${jobId})"
Tick(h) ==
    /\ h \in intervals
    /\ BagCardinality(statusReqs) < MaxInflight
    /\ statusReqs' = statusReqs (+) SetToBag({h})
    /\ lastPoll' = NoPoll
    /\ UNCHANGED <<mounted, homeState, intervals, effectInterval, nextTimer,
                   runs, nextRun, nextJob, discarded, completed, terminated>>

\* faulty variant: the catch block reports the failure and stops polling
PollOutcome_CatchIsError(resp) ==
    IF resp.kind = "throw" THEN "error"
    ELSE IF resp.kind = "http" THEN "http"
    ELSE IF ~resp.json THEN "error"
    ELSE IF resp.status = "completed" THEN "completed"
    ELSE IF resp.status = "error" THEN "error"
    ELSE "pending"

\* faulty variant: the completed branch is missing
PollOutcome_NoCompletedBranch(resp) ==
    IF resp.kind = "throw" THEN "throw"
    ELSE IF resp.kind = "http" THEN "http"
    ELSE IF ~resp.json THEN "throw"
    ELSE IF resp.status = "error" THEN "error"
    ELSE "pending"

\* faulty variant: a status that is not "completed" ends the polling
PollOutcome_GivesUp(resp) ==
    IF resp.kind = "throw" THEN "throw"
    ELSE IF resp.kind = "http" THEN "http"
    ELSE IF ~resp.json THEN "throw"
    ELSE IF resp.status = "completed" THEN "completed"
    ELSE "error"

\* faulty variant: a response without status counts as completed
PollOutcome_MissingStatusCompletes(resp) ==
    IF resp.kind = "throw" THEN "throw"
    ELSE IF resp.kind = "http" THEN "http"
    ELSE IF ~resp.json THEN "throw"
    ELSE IF resp.status \in {"completed", Undefined} THEN "completed"
    ELSE IF resp.status = "error" THEN "error"
    ELSE "pending"

\* the kind of a settled status request, as the callback branches on it
PollOutcome(resp) ==
    IF resp.kind = "throw" THEN "throw"
    ELSE IF resp.kind = "http" THEN "http"
    ELSE IF ~resp.json THEN "throw"
    ELSE IF resp.status = "completed" THEN "completed"
    ELSE IF resp.status = "error" THEN "error"
    ELSE "pending"

\* faulty variant: the callback does not clear its interval on a terminal status
ClearOwnInterval_Forgotten(timers, h) == timers

\* clearInterval(interval) in the callback of interval h
ClearOwnInterval(timers, h) == timers \ {h}

\* faulty variant: the message of the response is shown without a fallback
PollErrorMessage_NoFallback(resp) == resp.message

\* data.message || "Video generation failed"
PollErrorMessage(resp) ==
    IF Truthy(resp.message) THEN resp.message ELSE MsgVideoFailed

\* the interval callback of interval h resumes after its fetch settled
PollSettles(h, resp) ==
    /\ BagIn(h, statusReqs)
    /\ statusReqs' = statusReqs (-) SetToBag({h})
    /\ lastPoll' = PollOutcome(resp)
    /\ IF PollOutcome(resp) = "completed"
       THEN /\ intervals' = ClearOwnInterval(intervals, h)
            /\ terminated' = terminated \cup {h.job}
            /\ IF mounted
               THEN /\ videoUrl' = resp.url
                    /\ isGenerating' = FALSE
                    /\ progress' = 100
                    /\ completed' = completed \cup {h.job}
               ELSE UNCHANGED <<videoUrl, isGenerating, progress,
                                completed>>
            /\ UNCHANGED error
       ELSE IF PollOutcome(resp) = "error"
       THEN /\ intervals' = ClearOwnInterval(intervals, h)
            /\ terminated' = terminated \cup {h.job}
            /\ IF mounted
               THEN /\ error' = PollErrorMessage(resp)
                    /\ isGenerating' = FALSE
               ELSE UNCHANGED <<error, isGenerating>>
            /\ UNCHANGED <<videoUrl, progress, completed>>
       ELSE UNCHANGED <<videoUrl, isGenerating, progress, error, intervals,
                        completed, terminated>>
    /\ UNCHANGED <<mounted, file, previewUrl, showPreview, jobId,
                   panelImages, effectInterval, nextTimer, runs, nextRun,
                   nextJob, discarded>>

\* The component unmounts (navigation away): the effect cleanup runs and
\* React discards the component's state, which reads as after construction
\* from then on; state setters called later by pending continuations do
\* nothing.
Unmount ==
    /\ mounted
    /\ mounted' = FALSE
    /\ intervals' = EffectCleanup(intervals, effectInterval)
    /\ discarded' = discarded \cup {h.job : h \in intervals}
    /\ lastPoll' = NoPoll
    /\ file' = NoFile
    /\ previewUrl' = Null
    /\ videoUrl' = Null
    /\ isGenerating' = FALSE
    /\ showPreview' = FALSE
    /\ progress' = 0
    /\ error' = Null
    /\ jobId' = NoJob
    /\ panelImages' = << >>
    /\ UNCHANGED <<effectInterval, nextTimer, statusReqs, runs, nextRun,
                   nextJob, completed, terminated>>

Next ==
    \/ (\E sel \in SelectedFiles : HandleFile(sel)) /\ UNCHANGED apiVars
    \/ RemoveFile /\ UNCHANGED apiVars
    \/ ClickGenerate /\ UNCHANGED apiVars
    \/ (\E r \in runs : \E resp \in Phase1Responses : Phase1Settles(r, resp))
          /\ UNCHANGED apiVars
    \/ (\E r \in runs : \E resp \in Phase2Responses(nextJob) :
          Phase2Settles(r, resp)) /\ UNCHANGED apiVars
    \/ (\E h \in intervals : Tick(h)) /\ UNCHANGED apiVars
    \/ (\E h \in BagToSet(statusReqs) : \E resp \in StatusResponses :
          PollSettles(h, resp)) /\ UNCHANGED apiVars
    \/ Unmount /\ UNCHANGED apiVars

Spec == Init /\ [][Next]_allVars

\* handleCreateVideo called while no file is selected (the Generate button
\* is disabled then, so by a caller other than the button)
InvokeWithoutFile ==
    /\ mounted
    /\ file = NoFile
    /\ handleCreateVideo
    /\ UNCHANGED <<mounted, file, previewUrl, videoUrl, showPreview, jobId,
                   panelImages, pollState, nextJob, discarded, completed,
                   terminated>>

HandlerNext ==
    \/ Next
    \/ InvokeWithoutFile /\ UNCHANGED apiVars

\* the Home page with handleCreateVideo callable without a file
HandlerSpec == Init /\ [][HandlerNext]_allVars

\* ------------------------------------------------------------------ render
\* a value is truthy in "{x && (...)}"
Rendered(x) == x # Null /\ x # Undefined /\ x # ""
\* {error && ...}
ErrorBannerShown == mounted /\ Rendered(error)
\* {showPreview && previewUrl && ...}
PreviewShown == mounted /\ showPreview /\ Rendered(previewUrl)
\* {isGenerating && ...}
GeneratingShown == mounted /\ isGenerating
\* {videoUrl && !isGenerating && ...}
FinalVideoShown == mounted /\ Rendered(videoUrl) /\ ~isGenerating

\* ============================================================== api/api.js
\* largest "retries" argument fetchWithRetry is called with
MaxRetries == 2

\* ------------------------------------------------------ errors and bodies
ApiError(name, message, attempt) ==
    Outcome("rejected", name, message, 0, "", attempt)
\* what fetch number k rejects with: a transport failure, an aborted signal
NetworkError(k) == ApiError("TypeError", "Failed to fetch", k)
AbortError(k) == ApiError("AbortError", "The operation was aborted", k)
\* reading a body that has been read already
BodyUsedError == ApiError("TypeError", "body stream already read", 0)
\* new Error(`Backend returned non-JSON response (${status}):\n${text}`)
NonJsonError(status, text) ==
    Outcome("rejected", "Error", "Backend returned non-JSON response",
            status, text, 0)

\* a response of the backend: status code, whether the body is JSON, the
\* message field of a JSON body, and the body as text
ApiResponse(status, json, message, text) ==
    [status |-> status, json |-> json, message |-> message, text |-> text]
ApiResponses ==
    {ApiResponse(200, TRUE, Undefined, "{job_id:1}"),
     ApiResponse(200, FALSE, Undefined, "<html>OK</html>"),
     ApiResponse(500, TRUE, "Server busy", "{message:Server busy}"),
     ApiResponse(500, TRUE, Undefined, "{detail:OCR failed}"),
     ApiResponse(404, TRUE, "Job not found", "{message:Job not found}"),
     ApiResponse(502, FALSE, Undefined, "<html>Bad Gateway</html>")}
\* response.ok
Ok(resp) == resp.status \in 200..299

\* response.json(): reads the body to its end, then parses it
ResponseJson(resp) == [thrown |-> ~resp.json, bodyUsed |-> TRUE]
\* response.text(): rejects when the body has been read
ResponseText(resp, bodyUsed) ==
    [thrown |-> bodyUsed, text |-> IF bodyUsed THEN "" ELSE resp.text]

\* parseJSONResponse(response): the value returned or the error thrown
parseJSONResponse(resp) ==
    LET parsed == ResponseJson(resp)
    IN  IF ~parsed.thrown
        THEN [thrown |-> FALSE, err |-> NoOutcome]
        ELSE LET body == ResponseText(resp, parsed.bodyUsed)
             IN  IF body.thrown
                 THEN [thrown |-> TRUE, err |-> BodyUsedError]
                 ELSE [thrown |-> TRUE,
                       err |-> NonJsonError(resp.status, body.text)]

\* the generic messages of the wrappers
ApiFallback(fn) ==
    IF fn = "generateAudioStory" THEN "Audio story failed."
    ELSE IF fn = "generateVideo" THEN "Video generation failed."
    ELSE "Failed to fetch video status."

\* faulty variant: the "if (!response.ok)" test is missing
WrapperOutcome_NoOkTest(fn, resp, k) ==
    LET parsed == parseJSONResponse(resp)
    IN  IF parsed.thrown THEN parsed.err
        ELSE Outcome("resolved", "", "", resp.status, resp.text, k)

\* a wrapper after fetchWithRetry returned response resp of fetch number k
WrapperOutcome(fn, resp, k) ==
    LET parsed == parseJSONResponse(resp)
    IN  IF parsed.thrown THEN parsed.err
        ELSE IF ~Ok(resp)
        THEN ApiError("Error",
                      IF Truthy(resp.message) THEN resp.message
                      ELSE ApiFallback(fn), 0)
        ELSE Outcome("resolved", "", "", resp.status, resp.text, k)

\* ------------------------------------------------------------ fetchWithRetry
\* faulty variant: one retry too many
FetchWithRetryCatch_OffByOne(err, retries, attempts, aborted) ==
    IF retries >= 0 /\ ~aborted /\ attempts <= MaxRetries + 1
    THEN [thrown |-> FALSE, retries |-> retries - 1,
          attempts |-> attempts + 1, err |-> NoOutcome]
    ELSE [thrown |-> TRUE, retries |-> retries, attempts |-> attempts,
          err |-> err]

\* faulty variant: the retry is made without the signal
FetchWithRetryCatch_IgnoresAbort(err, retries, attempts, aborted) ==
    IF retries > 0
    THEN [thrown |-> FALSE, retries |-> retries - 1,
          attempts |-> attempts + 1, err |-> NoOutcome]
    ELSE [thrown |-> TRUE, retries |-> retries, attempts |-> attempts,
          err |-> err]

\* The catch block of fetchWithRetry after fetch rejected with err: with
\* retries left it calls fetch again; a fetch given an aborted signal
\* rejects at once without a network request, which the next frame catches.
RECURSIVE FetchWithRetryCatch(_, _, _, _)
FetchWithRetryCatch(err, retries, attempts, aborted) ==
    IF retries > 0
    THEN IF aborted
         THEN FetchWithRetryCatch(AbortError(attempts + 1), retries - 1,
                                  attempts + 1, aborted)
         ELSE [thrown |-> FALSE, retries |-> retries - 1,
               attempts |-> attempts + 1, err |-> NoOutcome]
    ELSE [thrown |-> TRUE, retries |-> retries, attempts |-> attempts,
          err |-> err]

\* the call uses an AbortController and an abort timer
HasTimeout(fn) == fn \in {"generateAudioStory", "generateVideo"}

\* the continuation of the call after fetch number apiAttempts rejected with
\* err; the catch block of a wrapper clears its timeout and rethrows
\* (aborted: the state of the signal; timers: the timers scheduled)
FetchRejected(err, aborted, timers) ==
    LET c == FetchWithRetryCatch(err, apiRetries, apiAttempts, aborted)
    IN  /\ apiRetries' = c.retries
        /\ apiAttempts' = c.attempts
        /\ IF c.thrown
           THEN /\ apiInFlight' = FALSE
                /\ apiRequests' = apiRequests
                /\ apiOutcome' = c.err
                /\ apiTimers' = IF HasTimeout(apiCall.fn)
                                THEN timers \ {"timeout"}
                                ELSE timers
           ELSE /\ apiInFlight' = TRUE
                /\ apiRequests' = apiRequests + 1
                /\ apiOutcome' = Pending
                /\ apiTimers' = timers

\* a call of fetchWithRetry up to "await fetch(url, options)"
StartFetch(fn, retries, preview) ==
    /\ apiCall' = [fn |-> fn, retries |-> retries, preview |-> preview]
    /\ apiRetries' = retries
    /\ apiAttempts' = 1
    /\ apiRequests' = 1
    /\ apiInFlight' = TRUE
    /\ apiAborted' = FALSE
    /\ apiOutcome' = Pending

\* faulty variant: the argument is tested after the controller and the
\* timeout are created
RejectAtOnce_AfterTimer(fn, preview, message) ==
    /\ apiCall' = [fn |-> fn, retries |-> 1, preview |-> preview]
    /\ apiRetries' = 0
    /\ apiAttempts' = 0
    /\ apiRequests' = 0
    /\ apiInFlight' = FALSE
    /\ apiController' = TRUE
    /\ apiAborted' = FALSE
    /\ apiTimers' = {"timeout"}
    /\ apiOutcome' = ApiError("Error", message, 0)

\* a call that throws before it reaches fetchWithRetry
RejectAtOnce(fn, preview, message) ==
    /\ apiCall' = [fn |-> fn, retries |-> 1, preview |-> preview]
    /\ apiRetries' = 0
    /\ apiAttempts' = 0
    /\ apiRequests' = 0
    /\ apiInFlight' = FALSE
    /\ apiController' = FALSE
    /\ apiAborted' = FALSE
    /\ apiTimers' = {}
    /\ apiOutcome' = ApiError("Error", message, 0)

\* no call is pending (the wrappers are modelled one call at a time; the
\* objects of the previous call are dropped when the next one starts)
ApiReady == apiOutcome.state # "pending"

\* fetchWithRetry(url, options, retries) called without a signal
CallFetchWithRetry(retries) ==
    /\ ApiReady
    /\ StartFetch("fetchWithRetry", retries, FALSE)
    /\ apiController' = FALSE
    /\ apiTimers' = {}
    /\ UNCHANGED vars

\* generateAudioStory(formData) up to its await
CallGenerateAudioStory ==
    /\ ApiReady
    /\ StartFetch("generateAudioStory", 1, FALSE)
    /\ apiController' = TRUE
    /\ apiTimers' = {"timeout"}
    /\ UNCHANGED vars

\* arguments generateVideo is called with
StoryArgs == {"object", "null", "string"}

\* generateVideo(storyData, preview) up to its await
CallGenerateVideo(storyData, preview) ==
    /\ ApiReady
    /\ IF storyData # "object"
       THEN RejectAtOnce("generateVideo", preview,
                         "Invalid storyData passed to generateVideo().")
       ELSE /\ StartFetch("generateVideo", 1, preview)
            /\ apiController' = TRUE
            /\ apiTimers' = IF preview
                            THEN ({"timeout"} \ {"timeout"})
                                     \cup {"previewTimeout"}
                            ELSE {"timeout"}
    /\ UNCHANGED vars

\* getVideoStatus(jobId) up to its await
CallGetVideoStatus(job) ==
    /\ ApiReady
    /\ IF job = NoJob
       THEN RejectAtOnce("getVideoStatus", FALSE,
                         "Job ID missing for getVideoStatus().")
       ELSE /\ StartFetch("getVideoStatus", 1, FALSE)
            /\ apiController' = FALSE
            /\ apiTimers' = {}
    /\ UNCHANGED vars

\* the request in flight fails at network level
FetchFails ==
    /\ apiInFlight
    /\ FetchRejected(NetworkError(apiAttempts), apiAborted, apiTimers)
    /\ UNCHANGED <<vars, apiCall, apiController, apiAborted>>

\* the request in flight receives response resp
FetchResponds(resp) ==
    /\ apiInFlight
    /\ apiInFlight' = FALSE
    /\ IF apiCall.fn = "fetchWithRetry"
       THEN /\ apiOutcome' = Outcome("resolved", "", "", resp.status,
                                      resp.text, apiAttempts)
            /\ apiTimers' = apiTimers
       ELSE /\ apiOutcome' = WrapperOutcome(apiCall.fn, resp, apiAttempts)
            /\ apiTimers' = IF HasTimeout(apiCall.fn)
                            THEN apiTimers \ {"timeout"}
                            ELSE apiTimers
    /\ UNCHANGED <<vars, apiCall, apiRetries, apiAttempts, apiRequests,
                   apiController, apiAborted>>

\* timer t fires: controller.abort(); a fetch in flight on the signal
\* rejects with an AbortError
TimerFires(t) ==
    /\ t \in apiTimers
    /\ apiAborted' = TRUE
    /\ IF apiInFlight
       THEN FetchRejected(AbortError(apiAttempts), TRUE, apiTimers \ {t})
       ELSE /\ apiTimers' = apiTimers \ {t}
            /\ UNCHANGED <<apiRetries, apiAttempts, apiRequests,
                           apiInFlight, apiOutcome>>
    /\ UNCHANGED <<vars, apiCall, apiController>>

ApiNext ==
    \/ \E retries \in 0..MaxRetries : CallFetchWithRetry(retries)
    \/ CallGenerateAudioStory
    \/ \E storyData \in StoryArgs : \E preview \in BOOLEAN :
          CallGenerateVideo(storyData, preview)
    \/ \E job \in {NoJob, 1} : CallGetVideoStatus(job)
    \/ FetchFails
    \/ \E resp \in ApiResponses : FetchResponds(resp)
    \/ \E t \in apiTimers : TimerFires(t)

ApiSpec == Init /\ [][ApiNext]_allVars

\* a timer that is scheduled fires after its delay
ApiFairSpec == ApiSpec /\ WF_allVars(\E t \in apiTimers : TimerFires(t))

\* ==================================================================== claims
\* the selections validateFile accepts, and those it rejects
AcceptedSelections == {sel \in SelectedFiles : validateFile(sel)}
RejectedSelections == SelectedFiles \ AcceptedSelections
\* a fetch that failed at transport level or returned a non-2xx status
RequestFailed(resp) == resp.kind \in {"throw", "http"}
\* a status request for interval h is issued in this step
Issued(h) == CopiesIn(h, statusReqs') > CopiesIn(h, statusReqs)
\* a status request of interval h left the requests in flight in this step
Answered(h) == CopiesIn(h, statusReqs') < CopiesIn(h, statusReqs)
\* a status response for interval h with body resp is processed in this step
Processed(h, resp) == Answered(h) /\ PollSettles(h, resp)
\* run r resumes in this step
Resumed(r) == r \in runs /\ r \notin runs'
\* status responses with a terminal status
TerminalResponses ==
    {resp \in StatusResponses :
        resp.kind = "ok" /\ resp.json
            /\ resp.status \in {"completed", "error"}}
CompletedResponses ==
    {resp \in TerminalResponses : resp.status = "completed"}
FailedStatusResponses == {resp \in StatusResponses : RequestFailed(resp)}
\* an error message is shown
ErrorShown(e) == e # Null /\ e # ""
InFlightHandles == BagToSet(statusReqs)

\* C1: selecting a new file or starting a new submission cancels the polling
\* loop of the previous job: no interval of a discarded job stays active, and
\* no status response of a discarded job changes videoUrl, isGenerating,
\* progress or error.
C1_NoUpdateFromDiscardedJob ==
    [][/\ \A h \in intervals' : h.job \notin discarded'
       /\ ClickGenerate => intervals' = {}
       /\ \A h \in InFlightHandles : \A resp \in StatusResponses :
            (h.job \in discarded /\ Processed(h, resp))
                => UNCHANGED <<videoUrl, isGenerating, progress, error>>]_vars

\* C2: a completed status response with video_url X sets videoUrl to X, and
\* the completion side effects are applied at most once per job.
C2_CompletionAppliedOnce ==
    [][\A h \in InFlightHandles : \A resp \in CompletedResponses :
          (mounted /\ Processed(h, resp))
              => (videoUrl' = resp.url /\ h.job \notin completed)]_vars

\* C3: a run issues its phase-2 request only when its phase-1 request has
\* settled with success; a phase-1 failure ends the run without a phase-2
\* request and without a job identifier; a status request is issued only for
\* the identifier held by jobId, which a successful phase-2 response returned.
C3_PhaseOrder ==
    [][/\ \A q \in runs' :
            (q.pc = "phase2" /\ q \notin runs)
                => \E r \in runs : \E resp \in Phase1Responses :
                      /\ r.id = q.id /\ r.pc = "phase1"
                      /\ ~RequestFailed(resp)
                      /\ Phase1Settles(r, resp)
       /\ \A r \in runs : \A resp \in Phase1Responses :
            (Resumed(r) /\ RequestFailed(resp) /\ Phase1Settles(r, resp))
                => /\ \A q \in runs' : q.id # r.id
                   /\ nextJob' = nextJob
                   /\ jobId' = jobId
       /\ \A h \in BagToSet(statusReqs') :
            Issued(h) => /\ h.job = jobId
                         /\ h.job # NoJob
                         /\ h.job \in 1..(nextJob - 1)]_vars
C3_Witness ==
    /\ InFlightHandles # {}
    /\ jobId # NoJob
    /\ \E r \in runs : r.pc = "phase2"

\* C4: every tick of the active interval issues exactly one status request
\* for its job, also while earlier requests are in flight; once a completed
\* or error response of a job has been processed, no status request is issued
\* for that job.
C4_OneRequestPerTickUntilTerminal ==
    [][/\ \A h \in intervals :
            (statusReqs' # statusReqs /\ Tick(h))
                   => /\ CopiesIn(h, statusReqs') = CopiesIn(h, statusReqs) + 1
                       /\ BagCardinality(statusReqs') =
                              BagCardinality(statusReqs) + 1
       /\ \A h \in BagToSet(statusReqs') :
            Issued(h) => (h \in intervals /\ h.job \notin terminated)
       /\ \A h \in InFlightHandles : \A resp \in TerminalResponses :
            Processed(h, resp)
                => (h \notin intervals' /\ h.job \in terminated')]_vars
C4_Witness ==
    /\ mounted
    /\ jobId \in terminated
    /\ intervals = {}
    /\ InFlightHandles # {}

\* C5: after a failure of phase 1 or phase 2 the flow is aborted with an
\* error message, isGenerating = false, progress = 0, jobId = null and no
\* polling interval active.
C5_FailureLeavesNoJob ==
    [][\A r \in runs : \A resp \in Failures :
          (mounted /\ Resumed(r) /\ RequestFailed(resp)
              /\ (Phase1Settles(r, resp) \/ Phase2Settles(r, resp)))
              => /\ ErrorShown(error')
                 /\ isGenerating' = FALSE
                 /\ progress' = 0
                 /\ jobId' = NoJob
                 /\ intervals' = {}]_vars

\* C6: at most one polling interval is active, and it polls the current job.
C6_AtMostOneInterval ==
    /\ Cardinality(intervals) <= 1
    /\ \A h \in intervals : h.job = jobId /\ h = effectInterval
C6_Witness ==
    /\ Cardinality(intervals) = 1
    /\ nextTimer > 2
    /\ discarded # {}

\* C7: when the active job is torn down while polling (an accepted
\* handleFile, removeFile, unmount), no interval remains, and no status
\* request is issued for a discarded job afterwards.
C7_TeardownCancelsInterval ==
    [][/\ (RemoveFile \/ Unmount
             \/ \E sel \in AcceptedSelections : file' = sel /\ HandleFile(sel))
            => (intervals' = {} /\ \A h \in intervals : ~Issued(h))
       /\ \A h \in BagToSet(statusReqs') :
            Issued(h) => h.job \notin discarded]_vars
C7_Witness ==
    /\ mounted
    /\ discarded # {}
    /\ intervals = {}
    /\ file = NoFile
    /\ jobId = NoJob

\* C8: a status request that fails at transport level or returns a non-2xx
\* status changes no state and leaves the interval active.
C8_FailedPollChangesNothing ==
    [][\A h \in InFlightHandles : \A resp \in FailedStatusResponses :
          Processed(h, resp)
              => /\ UNCHANGED <<homeState, intervals, effectInterval>>
                 /\ (h \in intervals => h \in intervals')]_vars
C8_Witness ==
    /\ lastPoll \in {"throw", "http"}
    /\ jobId # NoJob
    /\ effectInterval \in intervals
    /\ isGenerating

\* the media type of a PDF document
IsPdfType(t) == t = TypePdf

\* C9: validateFile accepts a file exactly when its media type is PDF and its
\* size is at most 50 MiB; every other file is rejected with an error message.
C9_AcceptsExactlyPdfUpToLimit ==
    [][\A sel \in SelectedFiles \ {NoFile} :
          HandleFile(sel)
              => IF IsPdfType(sel[1].type) /\ sel[1].size <= 50 * 1024 * 1024
                 THEN file' = sel /\ error' = Null
                 ELSE file' = file /\ ErrorShown(error')]_vars

\* C10: handleFile with a file that validateFile rejects issues no request
\* and changes nothing but error; every phase-1 request in flight carries a
\* file that passed validateFile.
C10_RejectedFileNeverSent ==
    [][/\ \/ UNCHANGED <<file, jobId, previewUrl, videoUrl, panelImages,
                         progress, isGenerating, runs, statusReqs, intervals>>
          \/ \A sel \in RejectedSelections : ~HandleFile(sel)
       /\ \A r \in runs' \ runs :
            r.pc = "phase1" => validateFile(<<r.file>>)]_vars
C10_Witness ==
    /\ error \in {MsgNotPdf, MsgTooBig}
    /\ file # NoFile
    /\ jobId # NoJob
    /\ \E r \in runs : r.pc = "phase1"

\* status responses with status "error"
ErrorStatusResponses ==
    {resp \in TerminalResponses : resp.status = "error"}

\* C11: a processed status response with status "error" sets error to the
\* response's message, or to "Video generation failed" when it has none,
\* sets isGenerating to false, clears the interval and leaves videoUrl alone.
C11_ErrorStatusFailsJob ==
    [][\A h \in InFlightHandles : \A resp \in ErrorStatusResponses :
          (mounted /\ Processed(h, resp))
              => /\ error' = IF resp.message # Undefined THEN resp.message
                              ELSE "Video generation failed"
                 /\ isGenerating' = FALSE
                 /\ h \notin intervals'
                 /\ videoUrl' = videoUrl]_vars
C11_Witness ==
    /\ mounted
    /\ lastPoll = "error"
    /\ error = MsgVideoFailed
    /\ ~isGenerating
    /\ intervals = {}
    /\ jobId # NoJob

\* the generic message of the phase run r is in
PhaseFallback(r) ==
    IF r.pc = "phase1" THEN "Audio generation failed"
    ELSE "Video generation failed"
\* a value a server-provided message can have
Present(x) == x # Undefined /\ x # ""

\* C12: a non-2xx response in phase 1 or phase 2 shows body.detail, else
\* body.message, else the generic message of the phase (also when the body
\* is not JSON); the run ends without a job identifier being set and
\* without polling being started.
C12_ServerMessageShown ==
    [][\A r \in runs : \A resp \in ErrorBodies :
          (mounted /\ Resumed(r)
              /\ (Phase1Settles(r, resp) \/ Phase2Settles(r, resp)))
              => /\ error' = IF resp.json /\ Present(resp.detail)
                                  THEN resp.detail
                              ELSE IF resp.json /\ Present(resp.message)
                                  THEN resp.message
                              ELSE PhaseFallback(r)
                 /\ \A q \in runs' : q.id # r.id
                 /\ UNCHANGED <<jobId, nextJob, intervals, effectInterval,
                                statusReqs>>]_vars
C12_Witness ==
    /\ mounted
    /\ error = "OCR failed"
    /\ jobId = NoJob
    /\ intervals = {}
    /\ nextJob = 1
    /\ nextRun = 2
    /\ runs = {}
    /\ ~isGenerating

\* ------------------------------------------------------- claims on api.js
\* the call in progress reached fetch through the default "retries = 1"
DefaultRetries == apiCall.fn # "fetchWithRetry" \/ apiCall.retries = 1

\* C13: fetchWithRetry performs at most retries + 1 fetch attempts (two with
\* the default retries = 1); a failed attempt that has a retry left is
\* followed by exactly one more attempt; the call resolves with the first
\* response obtained and rejects with the error of the last attempt when
\* every attempt failed.
C13_RetriesOnceOnNetworkFailure ==
    [][/\ apiAttempts' <= apiCall'.retries + 1
       /\ apiCall'.fn # "none" /\ DefaultRetries' => apiAttempts' <= 2
       /\ (FetchFails /\ ~apiAborted)
            => IF apiAttempts <= apiCall.retries
               THEN /\ apiAttempts' = apiAttempts + 1
                    /\ apiRequests' = apiRequests + 1
                    /\ apiOutcome'.state = "pending"
               ELSE /\ apiAttempts' = apiAttempts
                    /\ apiOutcome' = NetworkError(apiAttempts)
       /\ \A resp \in ApiResponses :
            (apiCall.fn = "fetchWithRetry" /\ FetchResponds(resp))
                => /\ apiOutcome'.state = "resolved"
                   /\ apiOutcome'.attempt = apiAttempts
                   /\ apiOutcome'.status = resp.status]_allVars
C13_Witness ==
    /\ apiCall.fn = "fetchWithRetry"
    /\ apiCall.retries = 1
    /\ apiAttempts = 2
    /\ apiOutcome = NetworkError(2)

Wrappers == {"generateAudioStory", "generateVideo", "getVideoStatus"}
\* responses with a 4xx / 5xx status
HttpErrors == {resp \in ApiResponses : ~Ok(resp)}

\* C14: a request answered with a non-2xx response is not retried: the
\* wrapper issues no further request and rejects; answered on the first
\* attempt, the call has issued exactly one request.
C14_NoRetryOnHttpError ==
    [][\A resp \in HttpErrors :
          (apiCall.fn \in Wrappers /\ FetchResponds(resp))
              => /\ apiOutcome'.state = "rejected"
                 /\ ~apiInFlight'
                 /\ apiRequests' = apiRequests
                 /\ apiAttempts' = apiAttempts
                 /\ (apiAttempts = 1 => apiRequests' = 1)]_allVars
C14_Witness ==
    /\ apiCall.fn = "getVideoStatus"
    /\ apiOutcome.state = "rejected"
    /\ apiOutcome.message = "Job not found"
    /\ apiAttempts = 1
    /\ apiRequests = 1
    /\ ~apiInFlight

\* a call of generateAudioStory or generateVideo has not settled
TimedCallPending == HasTimeout(apiCall.fn) /\ apiOutcome.state = "pending"

C16_NonJsonErrorCarriesBody ==
    [][\A resp \in HttpErrors :
          (~resp.json /\ apiCall.fn \in Wrappers /\ FetchResponds(resp))
              => /\ apiOutcome'.state = "rejected"
                 /\ apiOutcome'.status = resp.status
                 /\ apiOutcome'.text = resp.text]_allVars

\* ------------------------------------------------- claims on Home.jsx (2)
\* the interval fires every 3 s while it is scheduled, every status request
\* is answered, and the backend answers a polled job with a terminal status
\* in the end
FairSpec ==
    /\ Spec
    /\ WF_allVars((\E h \in intervals : Tick(h)) /\ UNCHANGED apiVars)
    /\ WF_allVars((\E h \in BagToSet(statusReqs) :
                     \E resp \in StatusResponses : PollSettles(h, resp))
                      /\ UNCHANGED apiVars)
    /\ SF_allVars((\E h \in intervals : \E resp \in TerminalResponses :
                     PollSettles(h, resp)) /\ UNCHANGED apiVars)

\* job j is in Polling: its interval is scheduled
Polling(j) == \E h \in intervals : h.job = j

\* C17: a completed status response for the current job, processed while
\* the job is current, sets videoUrl to its video_url, isGenerating to false
\* and stops polling; with ticks that keep firing and a backend that ends up
\* returning a terminal status, every job in Polling leaves Polling.
C17_CompletedReachesCompleted ==
    /\ [][\A h \in InFlightHandles : \A resp \in CompletedResponses :
             (mounted /\ h.job = jobId /\ h \in intervals
                 /\ Processed(h, resp))
                 => /\ videoUrl' = resp.url
                    /\ isGenerating' = FALSE
                    /\ intervals' = {}
                    /\ \A g \in BagToSet(statusReqs') : ~Issued(g)]_allVars
    /\ \A j \in 1..MaxRuns : Polling(j) ~> ~Polling(j)
C17_Witness ==
    /\ mounted
    /\ lastPoll = "completed"
    /\ jobId \in completed
    /\ videoUrl = "/final/123.mp4"
    /\ ~isGenerating
    /\ intervals = {}
    /\ progress = 100

\* the number of sections among the error banner, the preview, the
\* generating indicator and the final video that the page presents
SectionsShown ==
    Cardinality({s \in {"error", "preview", "generating", "final"} :
                    \/ s = "error" /\ ErrorBannerShown
                    \/ s = "preview" /\ PreviewShown
                    \/ s = "generating" /\ GeneratingShown
                    \/ s = "final" /\ FinalVideoShown})

\* C18: the UI states are mutually exclusive: the error banner, the
\* generating indicator, the preview section and the final-video section
\* are never shown together.
C18_UiStatesExclusive == SectionsShown <= 1

\* a field of the phase-1 payload is present
FieldPresent(x) == x.t = "array" \/ (x.t = "string" /\ x.v # << >>)
\* the elements of a field, the empty list when it is no array
ElementsOf(x) == IF x.t = "array" THEN x.v ELSE << >>

\* C19: the step that processes a successful phase-1 response stores the
\* panel locators (image_urls, else panel_images, else none) in panelImages
\* and issues the phase-2 request, no phase-2 request being issued before;
\* a failing phase 2 leaves panelImages as they are.
C19_PanelsBeforePhase2 ==
    [][/\ \A r \in runs : \A resp \in StoryPayloads :
            (mounted /\ Resumed(r) /\ Phase1Settles(r, resp))
                => /\ panelImages' =
                        IF FieldPresent(resp.image_urls)
                            THEN ElementsOf(resp.image_urls)
                        ELSE IF FieldPresent(resp.panel_images)
                            THEN ElementsOf(resp.panel_images)
                        ELSE << >>
                   /\ \A q \in runs : ~(q.id = r.id /\ q.pc = "phase2")
                   /\ \E q \in runs' : q.id = r.id /\ q.pc = "phase2"
       /\ \A r \in runs : \A resp \in Failures :
            (r.pc = "phase2" /\ Resumed(r) /\ Phase2Settles(r, resp))
                => panelImages' = panelImages]_allVars
C19_Witness ==
    /\ mounted
    /\ panelImages = <<"p1.png", "p2.png">>
    /\ error = "Video generation failed"
    /\ ~isGenerating
    /\ runs = {}
    /\ jobId = NoJob

\* C20: after handleFile accepted a file, and after removeFile, the render
\* job is discarded: jobId = null, previewUrl = null, videoUrl = null,
\* panelImages is empty, progress = 0, error = null, and no interval is left.
C20_FileChangeDiscardsJob ==
    [][(RemoveFile
          \/ \E sel \in AcceptedSelections : file' = sel /\ HandleFile(sel))
          => /\ jobId' = NoJob
             /\ previewUrl' = Null
             /\ videoUrl' = Null
             /\ panelImages' = << >>
             /\ progress' = 0
             /\ error' = Null
             /\ intervals' = {}]_allVars
C20_Witness ==
    /\ mounted
    /\ file # NoFile
    /\ completed # {}
    /\ lastPoll = NoPoll
    /\ jobId = NoJob
    /\ previewUrl = Null
    /\ videoUrl = Null
    /\ panelImages = << >>
    /\ progress = 0
    /\ error = Null
    /\ runs = {}
    /\ InFlightHandles = {}

\* ------------------------------------------------- claims on Home.jsx (3)
\* status responses that are not terminal: a transport failure, a non-2xx
\* response, and 2xx responses with status "pending" or without status
NonTerminalResponses == StatusResponses \ TerminalResponses

\* C21: the poller has no attempt limit and no backoff: a status response
\* that is not terminal leaves the interval scheduled, and while the
\* interval is scheduled its tick can fire and issues a status request for
\* its job (up to MaxInflight requests in flight in the model).
C21_PollsIndefinitely ==
    /\ [][/\ \A h \in InFlightHandles : \A resp \in NonTerminalResponses :
                Processed(h, resp)
                    => UNCHANGED <<intervals, effectInterval, jobId>>
          /\ \A h \in intervals :
                (statusReqs' # statusReqs /\ Tick(h))
                    => (Issued(h) /\ h \in intervals')]_allVars
    /\ [](\A h \in intervals :
             BagCardinality(statusReqs) < MaxInflight
                 => ENABLED (Tick(h) /\ UNCHANGED apiVars))
C21_Witness ==
    /\ mounted
    /\ lastPoll = "pending"
    /\ isGenerating
    /\ effectInterval \in intervals
    /\ effectInterval.job = jobId
    /\ BagIn(effectInterval, statusReqs)

\* something is pending that can set isGenerating to false: a submission,
\* the interval of the current job, or a status request in flight
ResetPending ==
    \/ runs # {}
    \/ \E h \in intervals : h.job = jobId
    \/ InFlightHandles # {}

\* C22: whenever isGenerating is true, a submission is in flight or a
\* polling interval is active for the current job, so that isGenerating is
\* never stuck at true.
C22_GeneratingNeverStuck == (mounted /\ isGenerating) => ResetPending

\* C23: at most one submission is in flight at any time, and the Generate
\* button is enabled only when no submission is in flight.
C23_OneSubmissionInFlight ==
    /\ Cardinality(runs) <= 1
    /\ (mounted /\ GenerateEnabled) => runs = {}

\* C24: the results of a submission whose file was removed are not applied:
\* while no file is selected (no submission can be started then) jobId,
\* previewUrl and panelImages keep their reset values and no polling
\* interval exists.
C24_DiscardedSubmissionNotApplied ==
    (mounted /\ file = NoFile)
        => /\ jobId = NoJob
           /\ previewUrl = Null
           /\ panelImages = << >>
           /\ intervals = {}

\* ---------------------------------------------------- claims on api.js (2)
\* the call has settled
Settled == apiOutcome.state \in {"resolved", "rejected"}

\* C25: when a call of generateAudioStory or generateVideo has settled, no
\* timer it created remains scheduled.
C25_TimersClearedOnSettle ==
    (HasTimeout(apiCall.fn) /\ Settled) => apiTimers = {}

\* ------------------------------------------------- claims on Home.jsx (4)
\* phase-2 responses that carry a usable body
Phase2Successes ==
    UNION {Phase2Responses(j) \ Failures : j \in 1..(MaxRuns + 1)}

\* C26: progress only takes the values 0, 10, 40, 70 and 100; the steps of a
\* submission that does not fail never decrease it; and progress = 100
\* implies that isGenerating is false and videoUrl is set.
C26_ProgressMonotone ==
    [][/\ progress' \in {0, 10, 40, 70, 100}
       /\ (mounted' /\ progress' = 100)
            => (isGenerating' = FALSE /\ videoUrl' # Null)
       /\ \A r \in runs :
            (mounted /\ Resumed(r)
                /\ \/ \E resp \in StoryPayloads : Phase1Settles(r, resp)
                   \/ \E resp \in Phase2Successes : Phase2Settles(r, resp))
                => progress' >= progress]_allVars

\* C27: handleCreateVideo called with no file selected sets error to
\* "Please upload a PDF first", issues no request, and leaves isGenerating,
\* progress and jobId unchanged.
C27_NoFileNoRequest ==
    [][InvokeWithoutFile
          => /\ error' = "Please upload a PDF first"
             /\ UNCHANGED <<isGenerating, progress, jobId, runs, nextRun,
                            statusReqs, intervals>>]_allVars
C27_Witness ==
    /\ mounted
    /\ file = NoFile
    /\ error = "Please upload a PDF first"
    /\ isGenerating
    /\ runs # {}

\* 2xx status responses whose status is neither "completed" nor "error"
OtherStatusResponses ==
    {resp \in StatusResponses :
        resp.kind = "ok" /\ resp.json
            /\ resp.status \notin {"completed", "error"}}

\* C28: a 2xx status response whose status is neither "completed" nor
\* "error" (pending, or no status) changes no state of the page and leaves
\* the interval active.
C28_OtherStatusChangesNothing ==
    [][\A h \in InFlightHandles : \A resp \in OtherStatusResponses :
          Processed(h, resp)
              => /\ UNCHANGED <<jobId, isGenerating, videoUrl, previewUrl,
                                error, progress, file, showPreview,
                                panelImages, intervals, effectInterval>>
                 /\ (h \in intervals => h \in intervals')]_allVars
C28_Witness ==
    /\ mounted
    /\ lastPoll = "pending"
    /\ jobId # NoJob
    /\ effectInterval \in intervals
    /\ isGenerating
    /\ progress = 70
    /\ statusReqs = EmptyBag

\* calls with an argument the wrapper refuses: getVideoStatus without a job
\* id, generateVideo with a storyData that is missing or not an object
InvalidCall ==
    \/ CallGetVideoStatus(NoJob)
    \/ \E storyData \in StoryArgs \ {"object"} : \E preview \in BOOLEAN :
           CallGenerateVideo(storyData, preview)

\* C29: getVideoStatus without a job id and generateVideo with a storyData
\* that is missing or not an object reject before any request is issued and
\* before any timer or AbortController is created.
C29_InvalidArgumentRejectsAtOnce ==
    [][InvalidCall
          => /\ apiOutcome'.state = "rejected"
             /\ apiOutcome'.name = "Error"
             /\ apiRequests' = 0
             /\ apiAttempts' = 0
             /\ ~apiInFlight'
             /\ apiTimers' = {}
             /\ ~apiController']_allVars
C29_Witness ==
    /\ apiCall.fn \in {"generateVideo", "getVideoStatus"}
    /\ apiOutcome.state = "rejected"
    /\ apiOutcome.message \in {"Invalid storyData passed to generateVideo().",
                                "Job ID missing for getVideoStatus()."}
    /\ apiRequests = 0
    /\ apiTimers = {}
    /\ ~apiController

\* values of a list field of a phase-1 response: absent, arrays (the empty
\* one too), strings (the empty one too)
StoryFields ==
    {JsUndefined, JsArray(<< >>), JsArray(<<"q1.png">>),
     JsArray(<<"p1.png", "p2.png">>), JsString(<< >>), JsString(<<"x">>)}
\* phase-1 responses with every pair of values under the two keys
StoryInputs ==
    {StoryData(images, panels) : images \in StoryFields, panels \in StoryFields}
\* the list the claim describes: image_urls when present, else panel_images,
\* else nothing; nothing when the chosen value is no array
ChosenList(data) ==
    IF FieldPresent(data.image_urls) THEN ElementsOf(data.image_urls)
    ELSE IF FieldPresent(data.panel_images) THEN ElementsOf(data.panel_images)
    ELSE << >>
\* normalizeStoryData and the derivation in handleCreateVideo agree on
\* every response, and normalizeStoryData changes image_urls only
SameListEverywhere ==
    \A data \in StoryInputs \cup StoryPayloads :
        LET out == normalizeStoryData(data)
        IN  /\ out.image_urls.t = "array"
            /\ out.image_urls.v = PanelList(data)
            /\ PanelList(data) = ChosenList(data)
            /\ PanelList(data) \in Seq({"p1.png", "p2.png", "q1.png"})
            /\ \A k \in (DOMAIN data) \ {"image_urls"} : out[k] = data[k]
            /\ DOMAIN out = DOMAIN data

\* C30: normalizeStoryData and handleCreateVideo derive the same list from
\* every phase-1 response, always an array: image_urls when present (the
\* empty array too), else panel_images, else empty, and empty when the
\* chosen value is no array; normalizeStoryData keeps the other fields; the
\* list handleCreateVideo stores is the one normalizeStoryData returns.
C30_SamePanelList ==
    [][/\ SameListEverywhere
       /\ \A r \in runs : \A resp \in StoryPayloads :
            (mounted /\ Resumed(r) /\ Phase1Settles(r, resp))
                => panelImages' = normalizeStoryData(resp).image_urls.v]_allVars
C30_Witness ==
    /\ mounted
    /\ panelImages = <<"q1.png">>
    /\ progress = 40
    /\ isGenerating
    /\ \E r \in runs : r.pc = "phase2"
    /\ jobId = NoJob
====
